---- MODULE Spec2Model ----
(***************************************************************************)
(* Model of serve.py: the static file server of the Coffee Roaster Digital *)
(* Twin webapp.  main() parses an optional port argument, changes to the   *)
(* directory of the script, builds a socketserver.TCPServer whose handler  *)
(* is SimpleHTTPRequestHandler with an end_headers override that adds      *)
(* three CORS headers, prints a banner and runs serve_forever() until a    *)
(* KeyboardInterrupt.                                                       *)
(*                                                                         *)
(* The calls serve.py makes into the Python standard library (int,         *)
(* socketserver.TCPServer, http.server.SimpleHTTPRequestHandler) are       *)
(* modelled by what CPython 3.11 does at those call sites.                 *)
(***************************************************************************)
EXTENDS Integers, Sequences, FiniteSets, TLC

VARIABLES
    sys_argv,      \* sys.argv: <<script>> or <<script, arg>>, arg a tuple of characters
    pc,            \* position of main()
    port,          \* local variable port of main()
    cwd,           \* process working directory
    sock,          \* the listening socket of httpd: "none", "listening", "closed"
    bound_port,    \* httpd.server_address[1] after server_bind (getsockname), -1 before
    stdout,        \* lines printed by print()
    stderr,        \* the uncaught exception reported as a traceback, "" if none
    exit_status,   \* process exit status, -1 while running
    backlog,       \* connections queued by the kernel on the listening socket
    active,        \* connections accepted and not yet shut down: id -> handler state
    next_conn,     \* id of the next client connection
    bind_error,    \* the exception server_bind() raised, "" if none
    caller_cwd,    \* the working directory the process was started in
    raised,        \* exception propagating out of the with block, "" if none
    sigint         \* where the operator's interrupt was delivered, "" if not yet

vars == <<sys_argv, pc, port, cwd, sock, bound_port, stdout, stderr, exit_status,
          bind_error, caller_cwd, raised, backlog, active, next_conn, sigint>>

(***************************************************************************)
(* Bounds of the model.                                                    *)
(***************************************************************************)
MaxArgLen == 2      \* every argument up to this length over ArgAlphabet is tried
MaxConns == 3       \* client connections made during one run
MaxBacklog == 2     \* connections waiting in the listen queue at once

(***************************************************************************)
(* Program constants.                                                      *)
(***************************************************************************)
DefaultPort == 8000
MaxTcpPort == 65535

ArgAlphabet == {"0", "8", "a", "-"}

\* Longer arguments worth trying: range edges, whitespace, sign, underscore, float.
ArgSamples ==
    { <<"8", "0", "8", "0">>,
      <<"6", "5", "5", "3", "5">>,
      <<"6", "5", "5", "3", "6">>,
      <<"7", "0", "0", "0", "0">>,
      <<" ", "8", "1", " ">>,
      <<"+", "8", "0">>,
      <<"1", "_", "0">>,
      <<"1", "_", "_", "0">>,
      <<"1", "e", "3">>,
      <<"a", "b", "c">> }

RECURSIVE StringsUpTo(_)
StringsUpTo(n) ==
    IF n = 0 THEN { <<>> }
    ELSE LET shorter == StringsUpTo(n - 1)
         IN  shorter \cup { Append(s, c) : s \in { t \in shorter : Len(t) = n - 1 },
                                           c \in ArgAlphabet }

ArgStrings == StringsUpTo(MaxArgLen) \cup ArgSamples

(***************************************************************************)
(* int(sys.argv[1]): surrounding whitespace is stripped, one optional sign, *)
(* then decimal digits, single underscores allowed between digits.          *)
(* Anything else raises ValueError.                                         *)
(***************************************************************************)
Digits == {"0", "1", "2", "3", "4", "5", "6", "7", "8", "9"}

DigitVal(c) ==
    CASE c = "0" -> 0 [] c = "1" -> 1 [] c = "2" -> 2 [] c = "3" -> 3 [] c = "4" -> 4
      [] c = "5" -> 5 [] c = "6" -> 6 [] c = "7" -> 7 [] c = "8" -> 8 [] c = "9" -> 9

RECURSIVE Strip(_)
Strip(s) ==
    IF s = <<>> THEN s
    ELSE IF Head(s) = " " THEN Strip(Tail(s))
    ELSE IF s[Len(s)] = " " THEN Strip(SubSeq(s, 1, Len(s) - 1))
    ELSE s

WellFormedDigits(s) ==
    /\ s # <<>>
    /\ \A i \in 1..Len(s) : s[i] \in Digits \cup {"_"}
    /\ s[1] \in Digits
    /\ s[Len(s)] \in Digits
    /\ \A i \in 1..(Len(s) - 1) : ~(s[i] = "_" /\ s[i + 1] = "_")

RECURSIVE DigitsValue(_, _)
DigitsValue(s, acc) ==
    IF s = <<>> THEN acc
    ELSE IF Head(s) = "_" THEN DigitsValue(Tail(s), acc)
    ELSE DigitsValue(Tail(s), 10 * acc + DigitVal(Head(s)))

\* [ok |-> FALSE] stands for ValueError.
int(str) ==
    LET s    == Strip(str)
        neg  == s # <<>> /\ Head(s) = "-"
        sign == s # <<>> /\ Head(s) \in {"-", "+"}
        body == IF sign THEN Tail(s) ELSE s
    IN  IF WellFormedDigits(body)
        THEN [ok |-> TRUE,
              val |-> IF neg THEN 0 - DigitsValue(body, 0) ELSE DigitsValue(body, 0)]
        ELSE [ok |-> FALSE, val |-> 0]

Dirs == {"caller_dir", "webapp_dir"}

\* Path(__file__).parent
webapp_dir == "webapp_dir"

Init ==
    /\ sys_argv \in { <<"serve.py">> } \cup { <<"serve.py", a>> : a \in ArgStrings }
    /\ pc = "parse_port"
    /\ port = DefaultPort
    /\ cwd \in Dirs
    /\ sock = "none"
    /\ bound_port = -1
    /\ stdout = <<>>
    /\ stderr = ""
    /\ exit_status = -1
    /\ backlog = <<>>
    /\ active = <<>>
    /\ next_conn = 1
    /\ sigint = ""
    /\ raised = ""
    /\ bind_error = ""
    /\ caller_cwd = cwd

\* ParsePort with the ValueError branch reporting the value and going on with
\* the default port instead of exiting.
ParsePortFallsBack ==
    /\ pc = "parse_port"
    /\ IF Len(sys_argv) > 1
       THEN LET r == int(sys_argv[2])
            IN  IF r.ok
                THEN port' = r.val /\ UNCHANGED stdout
                ELSE /\ stdout' = Append(stdout, <<"Invalid port number: ", sys_argv[2]>>)
                     /\ UNCHANGED port
       ELSE UNCHANGED <<port, stdout>>
    /\ pc' = "chdir"
    /\ UNCHANGED <<sys_argv, caller_cwd, bind_error, exit_status,
                   cwd, sock, bound_port, stderr, raised, backlog, active,
                   next_conn, sigint>>

\* main(), lines 22-28: the port from the command line, or the default.
ParsePort ==
    /\ pc = "parse_port"
    /\ IF Len(sys_argv) > 1
       THEN LET r == int(sys_argv[2])
            IN  IF r.ok
                THEN /\ port' = r.val
                     /\ pc' = "chdir"
                     /\ UNCHANGED <<stdout, exit_status>>
                ELSE /\ stdout' = Append(stdout, <<"Invalid port number: ", sys_argv[2]>>)
                     /\ exit_status' = 1
                     /\ pc' = "exited"
                     /\ UNCHANGED port
       ELSE /\ pc' = "chdir"
            /\ UNCHANGED <<port, stdout, exit_status>>
    /\ UNCHANGED <<sys_argv, caller_cwd, bind_error,
                   cwd, sock, bound_port, stderr, raised, backlog, active,
                   next_conn, sigint>>

\* Chdir with the os.chdir call left out.
ChdirSkipped ==
    /\ pc = "chdir"
    /\ pc' = "construct"
    /\ UNCHANGED <<sys_argv, caller_cwd, bind_error, cwd,
                   port, sock, bound_port, stdout, stderr, exit_status,
                   raised, backlog, active, next_conn, sigint>>

\* main(), lines 31-32: os.chdir(Path(__file__).parent).
Chdir ==
    /\ pc = "chdir"
    /\ cwd' = webapp_dir
    /\ pc' = "construct"
    /\ UNCHANGED <<sys_argv, caller_cwd, bind_error,
                   port, sock, bound_port, stdout, stderr, exit_status,
                   raised, backlog, active, next_conn, sigint>>

(***************************************************************************)
(* socketserver.TCPServer(("", port), CORSRequestHandler), line 45.        *)
(* __init__ creates the socket, then server_bind() and server_activate();  *)
(* if either raises, it calls server_close() and re-raises.                *)
(* socket.bind raises OverflowError for a port outside 0..65535, OSError   *)
(* when the address is in use or may not be bound.                         *)
(***************************************************************************)
\* BindOutcomes for a bind that takes the port modulo 2^16 instead of
\* rejecting it.
BindOutcomesUnchecked(p) ==
    {"ok", "OSError: Address already in use", "PermissionError"}

BindOutcomes(p) ==
    IF p < 0 \/ p > MaxTcpPort
    THEN {"OverflowError"}
    ELSE {"ok", "OSError: Address already in use", "PermissionError"}

\* Port 0 asks the kernel for a free port; getsockname() reports the one chosen.
EphemeralPorts == {32768, 49152}

AssignedPorts(p) == IF p = 0 THEN EphemeralPorts ELSE {p}

ExitCodeOf(e) == IF e = "KeyboardInterrupt" THEN 130 ELSE 1

\* Construct with a fallback: when the bind fails, the next port is taken.
ConstructFallsBack ==
    /\ pc = "construct"
    /\ \E outcome \in BindOutcomes(port) :
         /\ bind_error' = IF outcome = "ok" THEN "" ELSE outcome
         /\ sock' = "listening"
         /\ bound_port' = IF outcome = "ok" THEN port ELSE port + 1
         /\ pc' = "banner"
    /\ UNCHANGED <<sys_argv, caller_cwd, port, cwd, stdout, stderr, exit_status, raised,
                   backlog, active, next_conn, sigint>>

Construct ==
    /\ pc = "construct"
    /\ \E outcome \in BindOutcomes(port) :
         IF outcome = "ok"
         THEN /\ sock' = "listening"
              /\ UNCHANGED bind_error
              /\ \E q \in AssignedPorts(port) : bound_port' = q
              /\ pc' = "banner"
              /\ UNCHANGED <<stderr, exit_status>>
         ELSE /\ sock' = "closed"
              /\ bind_error' = outcome
              /\ stderr' = outcome
              /\ exit_status' = ExitCodeOf(outcome)
              /\ pc' = "exited"
              /\ UNCHANGED bound_port
    /\ UNCHANGED <<sys_argv, caller_cwd, port, cwd, stdout, raised, backlog, active,
                   next_conn, sigint>>

\* BannerLines printing the default port whatever port was asked for.
BannerLinesDefault(p) ==
    << <<"Coffee Roaster Digital Twin Server">>,
       <<"Serving at http://localhost:", DefaultPort>>,
       <<"Press Ctrl+C to stop the server">>,
       <<"">>,
       <<"Open http://localhost:", DefaultPort>> >>

BannerLines(p) ==
    << <<"Coffee Roaster Digital Twin Server">>,
       <<"Serving at http://localhost:", p>>,
       <<"Press Ctrl+C to stop the server">>,
       <<"">>,
       <<"Open http://localhost:", p>> >>

\* main(), lines 46-50.  The first line holds U+2615, which print() cannot
\* encode on every stdout encoding; the UnicodeEncodeError is raised inside
\* the with block, outside the try.
PrintBanner ==
    /\ pc = "banner"
    /\ \/ /\ stdout' = stdout \o BannerLines(port)
          /\ pc' = "serving"
          /\ UNCHANGED raised
       \/ /\ raised' = "UnicodeEncodeError"
          /\ pc' = "with_exit"
          /\ UNCHANGED stdout
    /\ UNCHANGED <<sys_argv, caller_cwd, bind_error,
                   port, cwd, sock, bound_port, stderr, exit_status,
                   backlog, active, next_conn, sigint>>

\* Catches with the except clause missing.
CatchesNothing(e) == FALSE

\* main(), line 54: the except clause around serve_forever().
Catches(e) == e = "KeyboardInterrupt"

StopNotice == <<"\nServer stopped.">>

\* main(), line 55.
PrintStopped ==
    /\ pc = "except_handler"
    /\ stdout' = Append(stdout, StopNotice)
    /\ pc' = "with_exit"
    /\ UNCHANGED <<sys_argv, caller_cwd, bind_error,
                   port, cwd, sock, bound_port, stderr, exit_status,
                   raised, backlog, active, next_conn, sigint>>

\* WithExit for a server built without the with statement: nothing closes
\* the socket.
WithExitLeavesOpen ==
    /\ pc = "with_exit"
    /\ stderr' = raised
    /\ exit_status' = IF raised = "" THEN 0 ELSE ExitCodeOf(raised)
    /\ pc' = "exited"
    /\ UNCHANGED <<sys_argv, caller_cwd, bind_error, sock, backlog,
                   port, cwd, bound_port, stdout, raised, active, next_conn, sigint>>

\* Leaving the with block of line 45: BaseServer.__exit__ calls server_close().
\* Then main() returns (status 0) or the pending exception ends the process.
WithExit ==
    /\ pc = "with_exit"
    /\ sock' = "closed"
    /\ backlog' = <<>>
    /\ stderr' = raised
    /\ exit_status' = IF raised = "" THEN 0 ELSE ExitCodeOf(raised)
    /\ pc' = "exited"
    /\ UNCHANGED <<sys_argv, caller_cwd, bind_error,
                   port, cwd, bound_port, stdout, raised, active, next_conn,
                   sigint>>

\* The operator's Ctrl+C, delivered once: KeyboardInterrupt is raised in main's
\* thread wherever it is.  Only the try of lines 52-55 catches it.
\* Inside serve_forever, _handle_request_noblock shuts the request in progress
\* down and re-raises.
Interrupt ==
    /\ sigint = ""
    /\ pc \in {"parse_port", "chdir", "construct", "banner", "serving"}
    /\ sigint' = pc
    /\ IF pc = "serving"
       THEN /\ active' = <<>>
            /\ IF Catches("KeyboardInterrupt")
               THEN pc' = "except_handler" /\ UNCHANGED raised
               ELSE pc' = "with_exit" /\ raised' = "KeyboardInterrupt"
            /\ UNCHANGED <<stderr, exit_status>>
       ELSE IF pc = "banner"
       THEN /\ raised' = "KeyboardInterrupt"
            /\ pc' = "with_exit"
            /\ UNCHANGED <<active, stderr, exit_status>>
       ELSE /\ stderr' = "KeyboardInterrupt"
            /\ exit_status' = ExitCodeOf("KeyboardInterrupt")
            /\ pc' = "exited"
            /\ UNCHANGED <<active, raised>>
    /\ UNCHANGED <<sys_argv, caller_cwd, bind_error,
                   port, cwd, sock, bound_port, stdout, backlog, next_conn>>

\* A client connects: the kernel queues the connection on the listening socket.
ClientConnects ==
    /\ sock = "listening"
    /\ Len(backlog) < MaxBacklog
    /\ next_conn <= MaxConns
    /\ backlog' = Append(backlog, next_conn)
    /\ next_conn' = next_conn + 1
    /\ UNCHANGED <<sys_argv, caller_cwd, bind_error,
                   pc, port, cwd, sock, bound_port, stdout, stderr,
                   exit_status, raised, active, sigint>>

(***************************************************************************)
(* The request handler: http.server.SimpleHTTPRequestHandler with the      *)
(* end_headers override of lines 38-43.  A handler state h holds           *)
(*   request_version  as parse_request leaves it,                          *)
(*   command          the request method ("" when none was parsed),        *)
(*   headers_buffer   the lines send_response_only/send_header buffered,   *)
(*   wfile            what was written to the client, in order.            *)
(***************************************************************************)
Paths == {"/", "/index.html", "/models", "/models/", "/does-not-exist.xyz", "/locked.bin"}

Methods == {"GET", "HEAD", "POST", "OPTIONS"}

\* The shapes of a request line that parse_request tells apart.
RequestLines ==
    {"empty", "too_long", "one_word", "bad_version", "http_2", "simple", "full"}

Requests ==
    { [line |-> l, method |-> "", path |-> ""] :
          l \in {"empty", "too_long", "one_word", "bad_version", "http_2"} }
    \cup { [line |-> l, method |-> m, path |-> p] :
          l \in {"simple", "full"}, m \in Methods, p \in Paths }

\* What a URL path is on disk under a directory.  The webapp directory holds
\* index.html, a models directory without an index and a file that cannot be
\* opened; the caller's directory holds none of them.
Resolve(directory, path) ==
    IF directory = webapp_dir
    THEN CASE path = "/" -> "dir_with_index"
           [] path = "/index.html" -> "file"
           [] path = "/models" -> "dir_no_slash"
           [] path = "/models/" -> "dir_listing"
           [] path = "/locked.bin" -> "unreadable"
           [] OTHER -> "missing"
    ELSE CASE path = "/" -> "dir_listing"
           [] OTHER -> "missing"

NewHandler ==
    [request_version |-> "", command |-> "", headers_buffer |-> <<>>, wfile |-> <<>>]

\* BaseHTTPRequestHandler.send_response_only
send_response_only(h, code) ==
    IF h.request_version # "HTTP/0.9"
    THEN [h EXCEPT !.headers_buffer = Append(@, <<"status", code>>)]
    ELSE h

\* BaseHTTPRequestHandler.send_header
send_header(h, keyword, value) ==
    IF h.request_version # "HTTP/0.9"
    THEN [h EXCEPT !.headers_buffer = Append(@, <<keyword, value>>)]
    ELSE h

\* BaseHTTPRequestHandler.send_response
send_response(h, code) ==
    send_header(send_header(send_response_only(h, code),
                            "Server", "SimpleHTTP"), "Date", "now")

\* BaseHTTPRequestHandler.flush_headers
flush_headers(h) ==
    [h EXCEPT !.wfile = @ \o h.headers_buffer, !.headers_buffer = <<>>]

\* BaseHTTPRequestHandler.end_headers, reached through super().end_headers()
super_end_headers(h) ==
    IF h.request_version # "HTTP/0.9"
    THEN flush_headers([h EXCEPT !.headers_buffer = Append(@, <<"end_of_headers">>)])
    ELSE h

\* end_headers with super().end_headers() called first: the three headers
\* are buffered after the block has been flushed.
end_headers_after_flush(h) ==
    send_header(
        send_header(
            send_header(super_end_headers(h), "Access-Control-Allow-Origin", "*"),
            "Access-Control-Allow-Methods", "GET, POST, OPTIONS"),
        "Access-Control-Allow-Headers", "*")

\* CORSRequestHandler.end_headers, lines 39-43
end_headers(h) ==
    super_end_headers(
        send_header(
            send_header(
                send_header(h, "Access-Control-Allow-Origin", "*"),
                "Access-Control-Allow-Methods", "GET, POST, OPTIONS"),
            "Access-Control-Allow-Headers", "*"))

write_body(h) == [h EXCEPT !.wfile = Append(@, <<"body">>)]

\* BaseHTTPRequestHandler.send_error: every code used here is >= 400, so the
\* HTML explanation is always built.
send_error(h, code) ==
    LET h1 == send_header(send_response(h, code), "Connection", "close")
        h2 == send_header(send_header(h1, "Content-Type", "text/html;charset=utf-8"),
                          "Content-Length", "n")
        h3 == end_headers(h2)
    IN  IF h.command # "HEAD" THEN write_body(h3) ELSE h3

\* BaseHTTPRequestHandler.parse_request: [ok, h].  request_version is the
\* default "HTTP/0.9" until a valid HTTP/1.x version has been read.
parse_request(h, req) ==
    LET h0 == [h EXCEPT !.request_version = "HTTP/0.9", !.command = ""]
    IN  CASE req.line = "bad_version" -> [ok |-> FALSE, h |-> send_error(h0, 400)]
          [] req.line = "http_2" -> [ok |-> FALSE, h |-> send_error(h0, 505)]
          [] req.line = "one_word" -> [ok |-> FALSE, h |-> send_error(h0, 400)]
          [] req.line = "simple" ->
                IF req.method # "GET"
                THEN [ok |-> FALSE, h |-> send_error(h0, 400)]
                ELSE [ok |-> TRUE, h |-> [h0 EXCEPT !.command = req.method]]
          [] req.line = "full" ->
                [ok |-> TRUE,
                 h |-> [h0 EXCEPT !.request_version = "HTTP/1.1", !.command = req.method]]

\* SimpleHTTPRequestHandler.send_head: [body, h], body telling whether a file
\* object or listing is returned for do_GET to copy.
send_head(h, directory, path) ==
    LET kind == Resolve(directory, path)
    IN  CASE kind = "dir_no_slash" ->
               [body |-> FALSE,
                h |-> end_headers(send_header(send_header(send_response(h, 301),
                          "Location", "path/"), "Content-Length", "0"))]
          [] kind \in {"file", "dir_with_index"} ->
               [body |-> TRUE,
                h |-> end_headers(send_header(send_header(send_header(
                          send_response(h, 200),
                          "Content-type", "by extension"), "Content-Length", "n"),
                          "Last-Modified", "mtime"))]
          [] kind = "dir_listing" ->
               [body |-> TRUE,
                h |-> end_headers(send_header(send_header(send_response(h, 200),
                          "Content-type", "text/html; charset=utf-8"),
                          "Content-Length", "n"))]
          [] OTHER -> [body |-> FALSE, h |-> send_error(h, 404)]

\* SimpleHTTPRequestHandler.do_GET and do_HEAD
do_method(h, directory, path) ==
    LET r == send_head(h, directory, path)
    IN  IF h.command = "GET" /\ r.body THEN write_body(r.h) ELSE r.h

\* BaseHTTPRequestHandler.handle_one_request: the handler state once the
\* request has been dealt with.
handle_one_request(req, directory) ==
    CASE req.line = "empty" -> NewHandler
      [] req.line = "too_long" -> send_error(NewHandler, 414)
      [] OTHER ->
           LET r == parse_request(NewHandler, req)
           IN  IF ~r.ok THEN r.h
               ELSE IF r.h.command \notin {"GET", "HEAD"} THEN send_error(r.h, 501)
               ELSE do_method(r.h, directory, req.path)

Remove(f, c) == [x \in (DOMAIN f) \ {c} |-> f[x]]

\* CanAccept for a server with ThreadingMixIn: each request gets a thread.
CanAcceptAlways == TRUE

\* socketserver.TCPServer.process_request runs the handler in the accept loop's
\* own thread: serve_forever() takes the next connection only when the one
\* before has been shut down.
CanAccept == DOMAIN active = {}

\* serve_forever(), line 53: select() reports the socket readable and
\* get_request() accepts.  The handler is created with directory = os.getcwd().
Accept ==
    /\ pc = "serving"
    /\ backlog # <<>>
    /\ CanAccept
    /\ active' = (Head(backlog) :> [stage |-> "reading", directory |-> cwd,
                                    h |-> NewHandler]) @@ active
    /\ backlog' = Tail(backlog)
    /\ UNCHANGED <<sys_argv, caller_cwd, bind_error,
                   pc, port, cwd, sock, bound_port, stdout, stderr,
                   exit_status, raised, next_conn, sigint>>

\* The client's request line arrives (the handler blocks in readline until it
\* does) and handle_one_request answers it.
HandleRequest ==
    /\ pc = "serving"
    /\ \E c \in DOMAIN active :
         /\ active[c].stage = "reading"
         /\ \E req \in Requests :
              active' = [active EXCEPT ![c] =
                            [stage |-> "responded", directory |-> active[c].directory,
                             h |-> handle_one_request(req, active[c].directory)]]
    /\ UNCHANGED <<sys_argv, caller_cwd, bind_error,
                   pc, port, cwd, sock, bound_port, stdout, stderr,
                   exit_status, raised, backlog, next_conn, sigint>>

\* HandlerRaises with the exception escaping serve_forever().
HandlerRaisesFatal ==
    /\ pc = "serving"
    /\ \E c \in DOMAIN active :
         /\ active[c].stage = "reading"
         /\ active' = Remove(active, c)
    /\ raised' = "ConnectionResetError"
    /\ pc' = "with_exit"
    /\ UNCHANGED <<sys_argv, caller_cwd, bind_error, port, cwd, sock, bound_port, stdout,
                   stderr, exit_status, backlog, next_conn, sigint>>

\* The handler raises (the client resets the connection while the handler
\* reads or writes): _handle_request_noblock catches Exception, calls
\* handle_error() and shutdown_request(); serve_forever() goes on.
HandlerRaises ==
    /\ pc = "serving"
    /\ \E c \in DOMAIN active :
         /\ active[c].stage = "reading"
         /\ active' = Remove(active, c)
    /\ UNCHANGED <<sys_argv, caller_cwd, bind_error,
                   pc, port, cwd, sock, bound_port, stdout, stderr,
                   exit_status, raised, backlog, next_conn, sigint>>

\* process_request: shutdown_request() once the handler has returned.
ShutdownRequest ==
    /\ pc = "serving"
    /\ \E c \in DOMAIN active :
         /\ active[c].stage = "responded"
         /\ active' = Remove(active, c)
    /\ UNCHANGED <<sys_argv, caller_cwd, bind_error,
                   pc, port, cwd, sock, bound_port, stdout, stderr,
                   exit_status, raised, backlog, next_conn, sigint>>

Next ==
    \/ ParsePort
    \/ Chdir
    \/ Construct
    \/ PrintBanner
    \/ PrintStopped
    \/ WithExit
    \/ Interrupt
    \/ ClientConnects
    \/ Accept
    \/ HandleRequest
    \/ HandlerRaises
    \/ ShutdownRequest

Spec == Init /\ [][Next]_vars

(***************************************************************************)
(* Properties.                                                             *)
(***************************************************************************)
Responded == { c \in DOMAIN active : active[c].stage = "responded" }

Wire(c) == active[c].h.wfile

CorsHeaders ==
    << <<"Access-Control-Allow-Origin", "*">>,
       <<"Access-Control-Allow-Methods", "GET, POST, OPTIONS">>,
       <<"Access-Control-Allow-Headers", "*">> >>

\* The status of a response as written, 0 when it has no status line.
StatusOf(w) == IF w # <<>> /\ w[1][1] = "status" THEN w[1][2] ELSE 0

Contains(w, x) == \E i \in 1..Len(w) : w[i] = x

HasAllCors(w) == \A k \in 1..Len(CorsHeaders) : Contains(w, CorsHeaders[k])

HasHeaderBlock(w) == Contains(w, <<"end_of_headers">>)

EndOfHeaders(w) == CHOOSE i \in 1..Len(w) : w[i] = <<"end_of_headers">>

\* The header block ends with the three CORS headers, in the order of lines
\* 40-42, after the status line and the handler's own headers.
CorsClosesBlock(w) ==
    LET e == EndOfHeaders(w)
    IN  /\ e > 4
        /\ w[1][1] = "status"
        /\ SubSeq(w, e - 3, e - 1) = CorsHeaders
        /\ \A i \in 2..(e - 4) : ~Contains(CorsHeaders, w[i])

\* C1 as stated: every response the server sends, whatever the request and
\* the status, carries the three CORS headers.
C1_EveryResponseHasCors ==
    \A c \in Responded : Wire(c) # <<>> => HasAllCors(Wire(c))

\* C1 amended: every response that has a header block (every answer to a
\* request line with a valid HTTP/1.x version, and the 414 answer) carries the
\* three CORS headers as the last headers of the block, whatever the status;
\* nothing is left unsent in the buffer.  An answer sent while request_version
\* is HTTP/0.9 has no status line and no headers at all.
C1_HeaderBlockHasCors ==
    \A c \in Responded :
        /\ active[c].h.headers_buffer = <<>>
        /\ HasHeaderBlock(Wire(c)) => CorsClosesBlock(Wire(c))
        /\ (Wire(c) # <<>> /\ active[c].h.request_version # "HTTP/0.9")
               => HasHeaderBlock(Wire(c))

C1_Witness ==
    \E c \in Responded :
        /\ StatusOf(Wire(c)) = 404
        /\ CorsClosesBlock(Wire(c))

NotAnInteger == Len(sys_argv) > 1 /\ ~int(sys_argv[2]).ok

\* C2: with a first argument that is not an integer, the process prints
\* Invalid port number: <value>, exits with status 1, and no socket is ever
\* created, bound or connected to.
C2_InvalidPortExitsUnbound ==
    NotAnInteger =>
        /\ pc \in {"parse_port", "exited"}
        /\ sock = "none"
        /\ bound_port = -1
        /\ bind_error = ""
        /\ backlog = <<>>
        /\ DOMAIN active = {}
        /\ (pc = "exited" /\ sigint = "") =>
               /\ exit_status = 1
               /\ stdout = << <<"Invalid port number: ", sys_argv[2]>> >>

C2_Witness ==
    /\ sys_argv = <<"serve.py", <<"a", "b", "c">> >>
    /\ pc = "exited"
    /\ exit_status = 1
    /\ stdout = << <<"Invalid port number: ", <<"a", "b", "c">> >> >>

\* C3: when the bind fails, the process ends with a non-zero status and the
\* error on stderr; it prints no banner, never serves, and binds nothing else.
C3_BindFailureIsFatal ==
    bind_error # "" =>
        /\ pc = "exited"
        /\ exit_status > 0
        /\ stderr = bind_error
        /\ sock = "closed"
        /\ bound_port = -1
        /\ stdout = <<>>
        /\ backlog = <<>>
        /\ DOMAIN active = {}

C3_Witness ==
    /\ bind_error = "OSError: Address already in use"
    /\ port = DefaultPort
    /\ pc = "exited"
    /\ exit_status = 1

OutOfRange == pc # "parse_port" /\ (port < 0 \/ port > MaxTcpPort)

\* C4: an integer argument outside 0..65535 never yields a listening server:
\* the process ends with an error on stderr and a non-zero status.
C4_PortOutOfRangeFailsFast ==
    OutOfRange =>
        /\ pc \in {"chdir", "construct", "exited"}
        /\ sock # "listening"
        /\ bound_port = -1
        /\ stdout = <<>>
        /\ pc = "exited" => (exit_status > 0 /\ stderr # "")

C4_Witness ==
    /\ sys_argv = <<"serve.py", <<"6", "5", "5", "3", "6">> >>
    /\ port = MaxTcpPort + 1
    /\ pc = "exited"
    /\ stderr = "OverflowError"
    /\ exit_status = 1

\* C5: an interrupt received while serve_forever() runs is caught: the stop
\* notice is printed after the banner and the process exits with status 0.
C5_InterruptStopsCleanly ==
    sigint = "serving" =>
        /\ pc \in {"except_handler", "with_exit", "exited"}
        /\ raised = ""
        /\ stderr = ""
        /\ pc \in {"with_exit", "exited"} =>
               stdout = Append(BannerLines(port), <<"\nServer stopped.">>)
        /\ pc = "exited" => exit_status = 0

C5_Witness ==
    /\ sigint = "serving"
    /\ pc = "exited"
    /\ exit_status = 0
    /\ stdout[Len(stdout)] = <<"\nServer stopped.">>

RECURSIVE DecimalValue(_)
DecimalValue(s) ==
    IF s = <<>> THEN 0
    ELSE 10 * DecimalValue(SubSeq(s, 1, Len(s) - 1)) + DigitVal(s[Len(s)])

PlainDigits(s) == s # <<>> /\ \A i \in 1..Len(s) : s[i] \in Digits

PortLines == {"Serving at http://localhost:", "Open http://localhost:"}

C7_OnlyInterruptLeavesServing ==
    [][ pc = "serving" =>
          /\ pc' # "serving" => (sigint = "" /\ sigint' = "serving")
          /\ sigint' = sigint =>
                (sock' = "listening" /\ exit_status' = -1 /\ raised' = "" /\ stderr' = "")
      ]_vars

C7_Witness ==
    /\ pc = "serving"
    /\ \E c \in Responded :
          /\ c > 1
          /\ StatusOf(Wire(c)) = 404

\* C8: the working directory is the script's directory from before the
\* listener exists, and is never changed again; every handler resolves paths
\* against it; handling requests changes neither the port nor the directory.
C8_BaseDirectoryFixed ==
    /\ [](sock # "none" => cwd = webapp_dir)
    /\ [](\A c \in DOMAIN active : active[c].directory = webapp_dir)
    /\ [][pc # "chdir" => cwd' = cwd]_vars
    /\ [][pc # "parse_port" => port' = port]_vars

C8_Witness ==
    /\ caller_cwd = "caller_dir"
    /\ \E c \in Responded :
          /\ active[c].directory = webapp_dir
          /\ StatusOf(Wire(c)) = 200
          /\ Contains(Wire(c), <<"Last-Modified", "mtime">>)

\* C9: at most one request is in progress; a connection is accepted only when
\* no other is in progress, and it is the oldest one waiting.
C9_OneRequestAtATime ==
    /\ [](Cardinality(DOMAIN active) <= 1)
    /\ [][ ~(DOMAIN active' \subseteq DOMAIN active) =>
             /\ DOMAIN active = {}
             /\ backlog # <<>>
             /\ DOMAIN active' = {Head(backlog)}
             /\ backlog' = Tail(backlog)
         ]_vars

C9_Witness ==
    /\ pc = "serving"
    /\ \E c \in DOMAIN active : active[c].stage = "reading"
    /\ Len(backlog) >= 1

StopPrinted == stdout # <<>> /\ stdout[Len(stdout)] = <<"\nServer stopped.">>

\* C10: a process that exits after the listener was created has closed the
\* listening socket, and no connection is accepted once the stop notice is
\* printed.
C10_SocketClosedOnExit ==
    /\ [](pc = "exited" => sock \in {"none", "closed"})
    /\ []((pc = "exited" /\ bound_port # -1) => sock = "closed")
    /\ [][StopPrinted => DOMAIN active' \subseteq DOMAIN active]_vars

C10_Witness ==
    /\ pc = "exited"
    /\ sock = "closed"
    /\ StopPrinted
    /\ next_conn > 1
    /\ bound_port # -1
====
